---- MODULE Spec2Model ----
(***************************************************************************)
(* Model of the youtube-mp3 command line tool: the pipeline of main()      *)
(* (fetch metadata -> download -> transcode -> tag -> finalize), the two   *)
(* format selectors of util.js and the error/exit behaviour of Log.        *)
(*                                                                         *)
(* One behaviour of the model is one run of the process.  The command line *)
(* is fixed in Init; every answer of a collaborator (ytdl, ffmpeg, prompt, *)
(* ffmetadata, the file system, ffprobe) is an event drawn with \E.        *)
(*                                                                         *)
(* Spec runs the pipeline over every format list and bitrate option;       *)
(* SpecMeta runs it over every title, separator list, lookup answer and    *)
(* typed line; SpecLookup is one call of loadItunesMeta.                   *)
(***************************************************************************)
EXTENDS Integers, Sequences, FiniteSets, TLC

\* ------------------------------------------------------------------ bounds
MaxFormats == 2     \* longest info.formats list
MaxBitrate == 2     \* largest audioBitrate a source format carries
MaxClen    == 2     \* largest clen (content length) a source format carries
MaxChunks  == 2     \* most 'data' chunks one download stream delivers
MaxResults == 2     \* longest result list the lookup service answers with
MaxTime    == 3     \* latest second the clock reaches
MaxTitleLen == 4    \* longest enumerated argument of a util.js string function

\* ------------------------------------------------------- program constants
MIN_BITRATE      == 32    \* main: options.bitrate < 32
MAX_BITRATE      == 320   \* main: options.bitrate > 320
LOG_ERROR_EXIT   == 25    \* Log.error: process.exit(25)
USAGE_EXIT       == 55    \* main: process.exit(55)
DOWNLOAD_EXIT    == 54    \* downloadVideo catch: process.exit(54)
CONVERT_EXIT     == 53    \* convertVideoToMp3 'error': process.exit(53)
NUMBER_MAX_VALUE == 2147483647  \* Number.MAX_VALUE: above every clen

\* -------------------------------------------------------- JavaScript values
Absent == -1        \* undefined / null (a missing field or option)
NaN    == -2        \* a non-numeric string, as a number

\* !v for a number-or-missing field (format.audioBitrate): 0 and null are falsy
Truthy(v) == v # Absent /\ v # 0

\* !v for a string-or-missing value (format.clen, a commander option):
\* every string that is present is non-empty here, and so truthy
StrTruthy(v) == v # Absent

\* a < n and a > n where a is a string coerced to a number: false on NaN
JsLt(a, n) == a # NaN /\ a < n
JsGt(a, n) == a # NaN /\ a > n

\* ---------------------------------------------------------------- formats
\* A StreamFormat; itag identifies it.  null is the record with itag 0.
NullFormat == [itag |-> 0, audioBitrate |-> Absent, clen |-> Absent]

BitrateValues == {Absent} \cup (0 .. MaxBitrate)
ClenValues    == {Absent} \cup (1 .. MaxClen)

\* The lists ytdl.getInfo can answer with: itags are the positions.
FormatLists ==
  UNION { { [i \in 1 .. n |-> [itag |-> i, audioBitrate |-> b[i], clen |-> c[i]]] :
              b \in [1 .. n -> BitrateValues], c \in [1 .. n -> ClenValues] } :
          n \in 0 .. MaxFormats }

\* the loop of highestBitrateFormat with >= for >: a tie keeps the last entry
RECURSIVE highestBitrateLoopGeq(_, _, _, _)
highestBitrateLoopGeq(fs, i, highestBitrate, targetFormat) ==
  IF i > Len(fs) THEN targetFormat
  ELSE LET format  == fs[i]
           bitrate == IF Truthy(format.audioBitrate) THEN format.audioBitrate ELSE 0
       IN  IF bitrate >= highestBitrate /\ bitrate > 0
           THEN highestBitrateLoopGeq(fs, i + 1, bitrate, format)
           ELSE highestBitrateLoopGeq(fs, i + 1, highestBitrate, targetFormat)

\* util.highestBitrateFormat: the for-in loop from index i on
RECURSIVE highestBitrateLoop(_, _, _, _)
highestBitrateLoop(fs, i, highestBitrate, targetFormat) ==
  IF i > Len(fs) THEN targetFormat
  ELSE LET format  == fs[i]
           bitrate == IF Truthy(format.audioBitrate) THEN format.audioBitrate ELSE 0
       IN  IF bitrate > highestBitrate
           THEN highestBitrateLoop(fs, i + 1, bitrate, format)
           ELSE highestBitrateLoop(fs, i + 1, highestBitrate, targetFormat)

highestBitrateFormat(fs) == highestBitrateLoop(fs, 1, 0, NullFormat)

\* the loop of smallestSizeFormat without its clen check: an entry that has
\* no content length counts as the smallest
RECURSIVE smallestSizeLoopNoClenCheck(_, _, _, _)
smallestSizeLoopNoClenCheck(fs, i, smallestSizeBytes, targetFormat) ==
  IF i > Len(fs) THEN targetFormat
  ELSE LET format == fs[i] IN
       IF ~Truthy(format.audioBitrate)
       THEN smallestSizeLoopNoClenCheck(fs, i + 1, smallestSizeBytes, targetFormat)
       ELSE LET fileSize == IF StrTruthy(format.clen) THEN format.clen ELSE 0 IN
            IF smallestSizeBytes > fileSize
            THEN smallestSizeLoopNoClenCheck(fs, i + 1, fileSize, format)
            ELSE smallestSizeLoopNoClenCheck(fs, i + 1, smallestSizeBytes, targetFormat)

\* util.smallestSizeFormat: the for-in loop from index i on
RECURSIVE smallestSizeLoop(_, _, _, _)
smallestSizeLoop(fs, i, smallestSizeBytes, targetFormat) ==
  IF i > Len(fs) THEN targetFormat
  ELSE LET format == fs[i] IN
       IF ~Truthy(format.audioBitrate) THEN smallestSizeLoop(fs, i + 1, smallestSizeBytes, targetFormat)
       ELSE IF ~StrTruthy(format.clen) THEN smallestSizeLoop(fs, i + 1, smallestSizeBytes, targetFormat)
       ELSE LET fileSize == format.clen IN
            IF smallestSizeBytes > fileSize
            THEN smallestSizeLoop(fs, i + 1, fileSize, format)
            ELSE smallestSizeLoop(fs, i + 1, smallestSizeBytes, targetFormat)

smallestSizeFormat(fs) == smallestSizeLoop(fs, 1, NUMBER_MAX_VALUE, NullFormat)

\* a selector choice that ignores the flag
selectFormatIgnoringFlag(isLowQualityPreferred, fs) == highestBitrateFormat(fs)

\* downloadMetadata: the selector the --low-quality flag names
selectFormat(isLowQualityPreferred, fs) ==
  IF isLowQualityPreferred THEN smallestSizeFormat(fs) ELSE highestBitrateFormat(fs)

\* ---------------------------------------------------------------- strings
\* A string is a sequence of one-character strings.  Undef is the value of a
\* field that is undefined or null.
Undef == <<"undefined">>

UNDEFINED_TEXT == <<"u", "n", "d", "e", "f", "i", "n", "e", "d">>
UNKNOWN_TITLE  == <<"u", "n", "k", "n", "o", "w", "n">>
TITLE_JOINER   == <<" ", "-", " ">>
SINGLE         == <<"S", "i", "n", "g", "l", "e">>

\* a value in a string concatenation: undefined reads "undefined"
ToStr(v) == IF v = Undef THEN UNDEFINED_TEXT ELSE v

\* !v for a string-or-null value: null, undefined and '' are falsy
StrFalsy(v) == v = Undef \/ v = << >>

\* the lower case of a character of the model's alphabet
Lower(c) ==
  CASE c = "A" -> "a"
    [] c = "B" -> "b"
    [] c = "C" -> "c"
    [] c = "D" -> "d"
    [] c = "E" -> "e"
    [] c = "F" -> "f"
    [] c = "G" -> "g"
    [] c = "H" -> "h"
    [] c = "I" -> "i"
    [] c = "J" -> "j"
    [] c = "K" -> "k"
    [] c = "L" -> "l"
    [] c = "M" -> "m"
    [] c = "N" -> "n"
    [] c = "O" -> "o"
    [] c = "P" -> "p"
    [] c = "Q" -> "q"
    [] c = "R" -> "r"
    [] c = "S" -> "s"
    [] c = "T" -> "t"
    [] c = "U" -> "u"
    [] c = "V" -> "v"
    [] c = "W" -> "w"
    [] c = "X" -> "x"
    [] c = "Y" -> "y"
    [] c = "Z" -> "z"
    [] OTHER -> c

\* str.slice(0, n)
Slice0(str, n) == SubSeq(str, 1, IF Len(str) < n THEN Len(str) ELSE n)

\* util.parseSongName: the synthetic title is never empty, so it is always
\* the one returned
parseSongName(videoDetails) ==
  LET artist == videoDetails.artist
      song   == videoDetails.song
      syntheticTitle == ToStr(artist) \o TITLE_JOINER \o ToStr(song)
  IN  IF ~StrFalsy(syntheticTitle) THEN syntheticTitle ELSE videoDetails.title

\* downloadMetadata: title = 'unknown', replaced by parseSongName unless it throws
\* (it throws when info.videoDetails is undefined)
videoTitleOf(videoDetails) ==
  IF videoDetails.present THEN parseSongName(videoDetails) ELSE UNKNOWN_TITLE

\* Array.prototype.toString of the separators from index i on: joined by ","
RECURSIVE joinComma(_, _)
joinComma(strs, i) ==
  IF i > Len(strs) THEN << >>
  ELSE IF i = Len(strs) THEN strs[i]
  ELSE strs[i] \o <<",">> \o joinComma(strs, i + 1)

\* ['-', em dash]: the em dash is the one character "em-dash"
DEFAULT_SEPARATORS == << <<"-">>, <<"em-dash">> >>

\* parseVideoTitle: the text its RegExp requires between the two groups.
\* '(' + escapedSeps + ')' concatenates the array, so the tokens (each escaped
\* to match literally) are joined by ",", not by "|".
separatorPattern(separators) == joinComma(separators, 1)

\* a title regex that splits on any blank
titleRegexExecBlank(videoTitle, separators) ==
  {i \in 2 .. Len(videoTitle) - 1 : videoTitle[i] = " "}

\* titleRegex.exec(videoTitle): the positions of " <pattern> " that leave at
\* least one character on each side; the greedy first group takes the last
titleRegexExec(videoTitle, separators) ==
  LET tok == <<" ">> \o separatorPattern(separators) \o <<" ">> IN
  {i \in 2 .. Len(videoTitle) :
     /\ i + Len(tok) <= Len(videoTitle)
     /\ SubSeq(videoTitle, i, i + Len(tok) - 1) = tok}

\* util.parseVideoTitle.  On a match the first statement after the two
\* captures is util.trimString(...), and util is not bound in util.js: the
\* call throws a ReferenceError, and no result is returned.
parseVideoTitle(videoTitle, separators) ==
  IF titleRegexExec(videoTitle, separators) = {}
  THEN [success |-> FALSE, threw |-> FALSE, artist |-> Undef, title |-> Undef]
  ELSE [success |-> FALSE, threw |-> TRUE,  artist |-> Undef, title |-> Undef]

\* str.trim() of the model's alphabet: blanks at both ends are dropped
RECURSIVE Trim(_)
Trim(str) ==
  IF str = << >> THEN str
  ELSE IF Head(str) = " " THEN Trim(Tail(str))
  ELSE IF str[Len(str)] = " " THEN Trim(SubSeq(str, 1, Len(str) - 1))
  ELSE str

\* the characters escapeStringRegexp puts a backslash in front of
REGEXP_SPECIALS == {"|", "\\", "{", "}", "(", ")", "[", "]", "^", "$", "+", "*", "?", "."}

\* escapeStringRegexp(substring).length: one more for each special
\* character, three more for each "-" (written \x2d)
RECURSIVE escapedLength(_)
escapedLength(substring) ==
  IF substring = << >> THEN 0
  ELSE (IF Head(substring) \in REGEXP_SPECIALS THEN 2
        ELSE IF Head(substring) = "-" THEN 4 ELSE 1) + escapedLength(Tail(substring))

\* new RegExp('[\\S ](' + substring + ')$', 'i').exec(string): the string
\* ends with the phrase, letter case apart, after at least one character
removeTrailingMatches(string, substring) ==
  /\ Len(string) > Len(substring)
  /\ \A k \in 1 .. Len(substring) :
       Lower(string[Len(string) - Len(substring) + k]) = Lower(substring[k])

\* string.slice(0, end) for end <= 0: -0 is 0, so the result is empty
sliceFromEnd(string, end) ==
  IF end = 0 \/ Len(string) + end <= 0 THEN << >>
  ELSE SubSeq(string, 1, Len(string) + end)

\* util.removeTrailing: the cut is (-1 * substring.length) + 1 with
\* substring already replaced by its escaped form
removeTrailing(string, substring) ==
  IF removeTrailingMatches(string, substring)
  THEN Trim(sliceFromEnd(string, (-1 * escapedLength(substring)) + 1))
  ELSE Trim(string)

\* searchTerm.search(new RegExp(pattern, 'i')) >= 0: pattern is used as a
\* regular expression, in which "." stands for any character
regexSearch(pattern, text) ==
  \E start \in 1 .. Len(text) - Len(pattern) + 1 :
     \A k \in 1 .. Len(pattern) :
        pattern[k] = "." \/ Lower(pattern[k]) = Lower(text[start + k - 1])

HTTP_OK == 200

NoMatch == [success |-> FALSE, title |-> Undef, artist |-> Undef, album |-> Undef,
            genre |-> Undef, date |-> Undef]

\* loadItunesMeta on the response the service gave
loadItunesMeta(searchTerm, response) ==
  IF response.statusCode # HTTP_OK THEN NoMatch
  ELSE LET results == response.results
           kept == {i \in DOMAIN results :
                      /\ results[i].kind = "song"
                      /\ regexSearch(results[i].trackName, searchTerm)
                      /\ regexSearch(results[i].artistName, searchTerm)}
       IN  IF kept = {} THEN NoMatch
           ELSE LET match == results[CHOOSE i \in kept : \A j \in kept : i <= j] IN
                [success |-> TRUE,
                 title   |-> match.trackName,
                 artist  |-> match.artistName,
                 album   |-> match.collectionName,
                 genre   |-> match.primaryGenreName,
                 date    |-> Slice0(match.releaseDate, 4)]

\* Object.assign(meta, result) for the five fields of meta
assignMeta(meta, src) ==
  [title |-> src.title, artist |-> src.artist, album |-> src.album,
   genre |-> src.genre, date |-> src.date]

\* gatherMetadata up to its prompt: the lookups made (term and outcome), how
\* often the title parser ran, whether an exception left the function, and
\* the meta record the defaults are taken from.  response1 and response2 are
\* the service's answers to the first and to the second request.
gatherMetadata(metadataTitle, separators, response1, response2) ==
  LET meta0  == [title |-> metadataTitle, artist |-> Undef, album |-> Undef,
                 genre |-> Undef, date |-> Undef]
      first  == loadItunesMeta(metadataTitle, response1)
      look1  == <<[term |-> metadataTitle, success |-> first.success]>>
  IN  IF first.success
      THEN [threw |-> FALSE, lookups |-> look1, parserRuns |-> 0,
            meta |-> assignMeta(meta0, first)]
      ELSE LET parsedInfo == parseVideoTitle(metadataTitle, separators) IN
           IF parsedInfo.threw
           THEN [threw |-> TRUE, lookups |-> look1, parserRuns |-> 1, meta |-> meta0]
           ELSE IF ~parsedInfo.success
           THEN [threw |-> FALSE, lookups |-> look1, parserRuns |-> 1, meta |-> meta0]
           ELSE LET meta1 == [meta0 EXCEPT !.artist = parsedInfo.artist,
                                           !.title = parsedInfo.title]
                    searchTerm == ToStr(meta1.artist) \o <<" ">> \o ToStr(meta1.title)
                    second == loadItunesMeta(searchTerm, response2)
                IN  [threw |-> FALSE,
                     lookups |-> Append(look1, [term |-> searchTerm, success |-> second.success]),
                     parserRuns |-> 1,
                     meta |-> IF second.success THEN assignMeta(meta1, second) ELSE meta1]

\* the properties of promptArgs, in the order they are asked
PROMPT_FIELDS == <<"title", "artist", "album", "genre", "year">>

METADATA_FIELDS == {"title", "artist", "album", "genre", "date"}

\* gatherMetadata: the value handed to genProperty for each property
promptDefault(meta, field) ==
  CASE field = "title"  -> meta.title
    [] field = "artist" -> meta.artist
    [] field = "album"  -> IF StrFalsy(meta.album) THEN SINGLE ELSE meta.album
    [] field = "genre"  -> meta.genre
    [] field = "year"   -> meta.date

\* genProperty: def.default is set only for a truthy defaultVal
hasDefault(defaultVal) == ~StrFalsy(defaultVal)

\* a filter that keeps every key with a truthy value
filterTagsAnyKey(obj) ==
  [k \in {k \in DOMAIN obj : ~StrFalsy(obj[k])} |-> obj[k]]

\* writeId3Tags: util.filter(metadata, (k, v) => v && METADATA_FIELDS.includes(k))
filterTags(obj) ==
  [k \in {k \in DOMAIN obj : ~StrFalsy(obj[k]) /\ k \in METADATA_FIELDS} |-> obj[k]]

\* ------------------------------------------------------------------ state
VARIABLES
  pc,             \* where main() is suspended, or "done" / "exited"
  exitCode,       \* the process exit code; Absent while the process runs
  failClass,      \* the fatal condition that ended the run, or "none"
  options,        \* the parsed command line
  downloadProgress, \* downloadVideo's progress bar exists
  formats,        \* info.formats as answered by ytdl.getInfo
  videoMetadata,  \* what downloadMetadata returned: [title |-> ..., format |-> ...]
  requestedItag,  \* the quality handed to ytdl() for the download; 0 = none
  data,           \* downloadVideo's buffer: the chunks received so far
  files,          \* the files this run has on disk
  outputBitrate,  \* the bitrate handed to ffmpeg; Absent = not invoked
  outputFormat,   \* the format handed to ffmpeg; "none" = not invoked
  tagErr,         \* ffMetadata.write reported an error
  out,            \* kinds of message printed so far
  started,        \* the stages started, in order
  completed,      \* the stages whose promise has resolved
  lookups,        \* gatherMetadata: the iTunes requests made, [term, success]
  parserRuns,     \* gatherMetadata: calls of util.parseVideoTitle
  meta,           \* gatherMetadata: the record the prompt defaults come from
  answers,        \* the prompt: [typed, value] for each property answered
  tags,           \* the field set handed to ffMetadata.write
  outputFileName, \* finalizeMp3: the name the final mp3 is copied to
  lkTerm,         \* a call of loadItunesMeta on its own: the search term,
  lkResponse,     \*   the answer of the service,
  lkResult,       \*   and what loadItunesMeta returned
  now,            \* the clock: what util.nowSeconds() returns
  startTime,      \* main: startTime; Absent before it is taken
  endTime,        \* main: endTime; Absent before it is taken
  runtime,        \* the runtime printed in the summary; Absent before
  streamed,       \* the chunks the download stream has emitted, in order
  videoFileData,  \* the bytes written to the video file; Absent = no file
  utilCall,       \* a call of a util.js function on its own: name and arguments,
  utilResult      \*   and what it returned

songVars == <<lookups, parserRuns, meta, answers, tags>>

lookupVars == <<lkTerm, lkResponse, lkResult>>

clockVars == <<now, startTime, endTime, runtime>>

streamVars == <<streamed, videoFileData>>

utilVars == <<utilCall, utilResult>>

vars == <<pc, exitCode, failClass, options, downloadProgress, formats, videoMetadata, requestedItag,
          data, files, outputBitrate, outputFormat, tagErr, out, started, completed,
          songVars, outputFileName, lookupVars, clockVars, streamVars, utilVars>>

Stages == <<"fetch", "download", "transcode", "tag", "finalize">>

\* what the user can type after -b: nothing, a non-numeric word, or a number
BitrateInputs == {Absent, NaN, MIN_BITRATE - 1, MIN_BITRATE, MAX_BITRATE, MAX_BITRATE + 1}

\* ----------------------------------------------------------------- inputs
\* info.videoDetails: missing, without media tags, with media artist and
\* song, with a media artist whose name has a "/"
VideoDetails ==
  { [present |-> FALSE, title |-> << >>,   artist |-> Undef,   song |-> Undef],
    [present |-> TRUE,  title |-> <<"t">>, artist |-> Undef,   song |-> Undef],
    [present |-> TRUE,  title |-> <<"t">>, artist |-> <<"A">>, song |-> <<"b">>],
    [present |-> TRUE,  title |-> <<"t">>, artist |-> <<"A", "/">>, song |-> <<"b">>] }

\* the entries of the service's result list
ItunesEntries ==
  [kind : {"song", "album"}, trackName : {<<"b">>, <<".">>}, artistName : {<<"a">>, <<"x">>},
   collectionName : {<<"L">>}, primaryGenreName : {<<"G">>},
   releaseDate : {<<"2", "0", "1", "5", "-">>}]

NOT_FOUND == 404

Responses ==
  {[statusCode |-> NOT_FOUND, results |-> << >>]} \cup
  UNION { {[statusCode |-> HTTP_OK, results |-> r] : r \in [1 .. n -> ItunesEntries]} :
          n \in 0 .. MaxResults }

\* a line typed at the prompt: empty, or a text that is also a number
TypedLines == {<< >>, <<"7">>}

\* the chunks a download stream emits: one or more bytes each
MaxChunkLen == 2    \* most bytes in one chunk
Bytes  == {1, 2}
Chunks == UNION { [1 .. n -> Bytes] : n \in 1 .. MaxChunkLen }
SpecChunks == { <<1>> }

\* the command lines and collaborator answers of Spec: every format list and
\* every bitrate, one title and no lookup match
SpecOptions ==
  [url : BOOLEAN, lowQuality : BOOLEAN, video : BOOLEAN, bitrate : BitrateInputs,
   separator : {DEFAULT_SEPARATORS}, output : {Undef}]
SpecDetails   == {d \in VideoDetails : ~d.present}
SpecResponses == {r \in Responses : r.statusCode = NOT_FOUND}
SpecTyped     == TypedLines \ {<< >>}

\* what the user can give after -o: nothing, a name in a directory, a name
\* that already ends in .mp3
OutputNames == {Undef, <<"d", "/", "o">>, <<"o", ".", "m", "p", "3">>}

\* the command lines and collaborator answers of SpecMeta: one format list,
\* every title, separator list and typed line, every answer listing songs
MetaOptions ==
  [url : {TRUE}, lowQuality : {FALSE}, video : BOOLEAN, bitrate : {Absent},
   separator : {DEFAULT_SEPARATORS, << <<"-">> >>}, output : OutputNames]
MetaFormatLists == { <<[itag |-> 1, audioBitrate |-> 1, clen |-> 1]>> }
MetaResponses ==
  {r \in Responses : \A i \in DOMAIN r.results : r.results[i].kind = "song"}

\* gatherMetadata's meta before it is built
NoMeta == [title |-> Undef, artist |-> Undef, album |-> Undef, genre |-> Undef, date |-> Undef]

NoTags == [k \in {} |-> Undef]

NoResponse == [statusCode |-> 0, results |-> << >>]

\* no util.js function is called on its own
NoCall == [fn |-> "none"]

\* the state of a process that has just been started
InitState ==
  /\ pc = "main"
  /\ exitCode = Absent
  /\ failClass = "none"
  /\ downloadProgress = FALSE
  /\ formats = << >>
  /\ videoMetadata = [title |-> Undef, format |-> NullFormat]
  /\ requestedItag = 0
  /\ data = << >>
  /\ files = {}
  /\ outputBitrate = Absent
  /\ outputFormat = "none"
  /\ tagErr = FALSE
  /\ out = {}
  /\ started = << >>
  /\ completed = {}
  /\ lookups = << >>
  /\ parserRuns = 0
  /\ meta = NoMeta
  /\ answers = << >>
  /\ tags = NoTags
  /\ outputFileName = Undef
  /\ now = 0
  /\ startTime = Absent
  /\ endTime = Absent
  /\ runtime = Absent
  /\ streamed = << >>
  /\ videoFileData = Absent

Init ==
  /\ options \in SpecOptions
  /\ InitState
  /\ lkTerm = << >> /\ lkResponse = NoResponse /\ lkResult = NoMatch
  /\ utilCall = NoCall /\ utilResult = NoCall

InitMeta ==
  /\ options \in MetaOptions
  /\ InitState
  /\ lkTerm = << >> /\ lkResponse = NoResponse /\ lkResult = NoMatch
  /\ utilCall = NoCall /\ utilResult = NoCall

\* ---------------------------------------------------------------- helpers
\* process.exit(code)
processExit(code, class) ==
  /\ pc' = "exited"
  /\ exitCode' = code
  /\ failClass' = class

\* Log.error without its process.exit: the caller would carry on
logErrorNoExit(class) ==
  /\ out' = out \cup {"error"}
  /\ failClass' = class
  /\ UNCHANGED <<pc, exitCode>>

\* Log.error: print the message and the stack, then process.exit(25).
\* Nothing the caller wrote after the call runs.
logError(class) ==
  /\ out' = out \cup {"error"}
  /\ processExit(LOG_ERROR_EXIT, class)

\* the exit code of a node process whose main() promise was rejected with
\* nobody handling it: 1, or 0 on a node that only warns
UNHANDLED_REJECTION_EXITS == {0, 1}

\* an exception leaves main(): nothing after the throwing statement runs
unhandledRejection(code) ==
  /\ out' = out \cup {"uncaught"}
  /\ processExit(code, "uncaught")

\* ---------------------------------------------------------------- actions
\* main() without the process.exit after outputHelp
mainNoUsageExit ==
  /\ pc = "main"
  /\ IF StrTruthy(options.bitrate)
        /\ (JsLt(options.bitrate, MIN_BITRATE) \/ JsGt(options.bitrate, MAX_BITRATE))
     THEN /\ logError("validation")
          /\ UNCHANGED <<started, startTime>>
     ELSE /\ out' = (IF options.url THEN out ELSE out \cup {"usage"}) \cup {"header"}
          /\ pc' = "getInfo"
          /\ started' = Append(started, "fetch")
          /\ startTime' = now
          /\ UNCHANGED <<exitCode, failClass>>
  /\ UNCHANGED <<options, downloadProgress, formats, videoMetadata, requestedItag, data, files,
                 outputBitrate, outputFormat, outputFileName, tagErr, completed, songVars, lookupVars,
                 now, endTime, runtime, streamVars, utilVars>>

\* main(): argument validation, then the call of downloadMetadata up to its
\* await of ytdl.getInfo.
main ==
  /\ pc = "main"
  /\ IF ~options.url
     THEN \* program.outputHelp(); process.exit(55)
          /\ out' = out \cup {"usage"}
          /\ processExit(USAGE_EXIT, "usage")
          /\ UNCHANGED <<started, startTime>>
     ELSE IF StrTruthy(options.bitrate)
             /\ (JsLt(options.bitrate, MIN_BITRATE) \/ JsGt(options.bitrate, MAX_BITRATE))
     THEN \* log.error('Bitrate must be between 32 and 320 kbps')
          /\ logError("validation")
          /\ UNCHANGED <<started, startTime>>
     ELSE \* printHeader(); downloadMetadata(...) awaits ytdl.getInfo(url)
          /\ out' = out \cup {"header"}
          /\ pc' = "getInfo"
          /\ started' = Append(started, "fetch")
          /\ startTime' = now
          /\ UNCHANGED <<exitCode, failClass>>
  /\ UNCHANGED <<options, downloadProgress, formats, videoMetadata, requestedItag, data, files,
                 outputBitrate, outputFormat, outputFileName, tagErr, completed, songVars, lookupVars,
                 now, endTime, runtime, streamVars, utilVars>>

\* downloadMetadata without the check of a null targetFormat
downloadMetadataNoNullCheck(fs, videoDetails) ==
  /\ pc = "getInfo"
  /\ formats' = fs
  /\ LET targetFormat == selectFormat(options.lowQuality, fs) IN
     /\ videoMetadata' = [title |-> videoTitleOf(videoDetails), format |-> targetFormat]
     /\ completed' = completed \cup {"fetch"}
     /\ requestedItag' = targetFormat.itag
     /\ started' = Append(started, "download")
     /\ pc' = "download"
     /\ UNCHANGED <<exitCode, failClass, out>>
  /\ UNCHANGED <<options, downloadProgress, data, files, outputBitrate, outputFormat, outputFileName, tagErr,
                 songVars, lookupVars,
                 clockVars, streamVars, utilVars>>

\* downloadMetadata after ytdl.getInfo resolved with the format list fs and
\* the video details, and, when it returns, main's call of downloadVideo up
\* to the promise it awaits.
\* With no format selected, error(...) is not a function of this module: the
\* ReferenceError is caught by downloadMetadata's own catch, which calls
\* log.error.
downloadMetadata(fs, videoDetails) ==
  /\ pc = "getInfo"
  /\ formats' = fs
  /\ LET targetFormat == selectFormat(options.lowQuality, fs) IN
     IF targetFormat = NullFormat
     THEN /\ logError("noaudio")
          /\ UNCHANGED <<videoMetadata, requestedItag, started, completed>>
     ELSE /\ videoMetadata' = [title |-> videoTitleOf(videoDetails), format |-> targetFormat]
          /\ completed' = completed \cup {"fetch"}
          \* downloadVideo: ytdl(url, { quality: metadata.format.itag })
          /\ requestedItag' = targetFormat.itag
          /\ started' = Append(started, "download")
          /\ pc' = "download"
          /\ UNCHANGED <<exitCode, failClass, out>>
  /\ UNCHANGED <<options, downloadProgress, data, files, outputBitrate, outputFormat, outputFileName, tagErr,
                 songVars, lookupVars,
                 clockVars, streamVars, utilVars>>

\* downloadMetadata's catch when ytdl.getInfo rejects
downloadMetadataCatch ==
  /\ pc = "getInfo"
  /\ logError("fetch")
  /\ UNCHANGED <<options, downloadProgress, formats, videoMetadata, requestedItag, data, files,
                 outputBitrate, outputFormat, outputFileName, tagErr, started, completed, songVars, lookupVars,
                 clockVars, streamVars, utilVars>>

\* downloadVideo .on('progress'): the bar is created on the first event and
\* updated; the buffer is not touched
downloadVideoProgress ==
  /\ pc = "download"
  /\ downloadProgress' = TRUE
  /\ UNCHANGED <<pc, exitCode, failClass, options, formats, videoMetadata, requestedItag,
                 data, files, outputBitrate, outputFormat, outputFileName, tagErr, out, started, completed,
                 songVars, lookupVars,
                 clockVars, streamVars, utilVars>>

\* a 'data' handler that puts the new chunk in front of the buffer
downloadVideoDataPrepend(chunk) ==
  /\ pc = "download"
  /\ Len(streamed) < MaxChunks
  /\ streamed' = Append(streamed, chunk)
  /\ data' = chunk \o data
  /\ UNCHANGED <<pc, exitCode, failClass, options, downloadProgress, formats, videoMetadata,
                 requestedItag, files, outputBitrate, outputFormat, outputFileName, tagErr, out, started,
                 completed, songVars, lookupVars, clockVars, videoFileData, utilVars>>

\* downloadVideo .on('data'): the stream emits its next chunk and
\* data = Buffer.concat([data, chunk], data.length + chunk.length)
downloadVideoData(chunk) ==
  /\ pc = "download"
  /\ Len(streamed) < MaxChunks
  /\ streamed' = Append(streamed, chunk)
  /\ data' = data \o chunk
  /\ UNCHANGED <<pc, exitCode, failClass, options, downloadProgress, formats, videoMetadata,
                 requestedItag, files, outputBitrate, outputFormat, outputFileName, tagErr, out, started,
                 completed, songVars, lookupVars, clockVars, videoFileData, utilVars>>

\* a writeVideoFile that always writes to the temporary directory
writeVideoFileTmp(videoOnlyMode) == "video_tmp"

\* writeVideoFile: the name of the file written
writeVideoFile(videoOnlyMode) == IF videoOnlyMode THEN "video_cwd" ELSE "video_tmp"

\* an outputBitrate that ignores the override
convertOutputBitrateSource(bitrate, format) == format.audioBitrate

\* convertVideoToMp3: const outputBitrate = bitrate || format.audioBitrate
convertOutputBitrate(bitrate, format) ==
  IF StrTruthy(bitrate) THEN bitrate ELSE format.audioBitrate

\* downloadVideo .on('end'): resolve(data); main writes the video file and,
\* unless --video, starts ffmpeg in convertVideoToMp3.
downloadVideoEnd ==
  /\ pc = "download"
  /\ completed' = completed \cup {"download"}
  /\ files' = files \cup {writeVideoFile(options.video)}
  /\ videoFileData' = data
  /\ IF options.video
     THEN /\ pc' = "done"
          /\ exitCode' = 0
          /\ UNCHANGED <<outputBitrate, outputFormat, started>>
     ELSE /\ outputBitrate' = convertOutputBitrate(options.bitrate, videoMetadata.format)
          /\ outputFormat' = "mp3"
          /\ started' = Append(started, "transcode")
          /\ pc' = "convert"
          /\ UNCHANGED exitCode
  /\ UNCHANGED <<failClass, options, downloadProgress, formats, videoMetadata, requestedItag, data,
                 tagErr, out, songVars, outputFileName, lookupVars,
                 clockVars, streamed, utilVars>>

\* a download that is started again when the stream fails
downloadVideoErrorRetry ==
  /\ pc = "download"
  /\ started' = Append(started, "download")
  /\ data' = << >>
  /\ UNCHANGED <<pc, exitCode, failClass, options, downloadProgress, formats, videoMetadata,
                 requestedItag, files, outputBitrate, outputFormat, outputFileName, tagErr, out, completed,
                 songVars, lookupVars,
                 clockVars, streamVars, utilVars>>

\* downloadVideo .on('error')
downloadVideoError ==
  /\ pc = "download"
  /\ logError("download")
  /\ UNCHANGED <<options, downloadProgress, formats, videoMetadata, requestedItag, data, files,
                 outputBitrate, outputFormat, outputFileName, tagErr, started, completed, songVars, lookupVars,
                 clockVars, streamVars, utilVars>>

\* convertVideoToMp3 .on('end'): keepVideoFile is !options.video, which is
\* true here, so the video file stays; resolve(musicFileName); main calls
\* writeId3Tags, whose gatherMetadata makes its lookups and ends awaiting
\* prompt.get, unless an exception leaves it.
convertVideoToMp3End(response1, response2, code) ==
  /\ pc = "convert"
  /\ LET keepVideoFile == ~options.video IN
     files' = (IF keepVideoFile THEN files ELSE files \ {writeVideoFile(options.video)})
                \cup {"mp3_tmp"}
  /\ completed' = completed \cup {"transcode"}
  /\ endTime' = now
  /\ started' = Append(started, "tag")
  /\ \E g \in {gatherMetadata(videoMetadata.title, options.separator, response1, response2)} :
     /\ lookups' = g.lookups
     /\ parserRuns' = g.parserRuns
     /\ IF g.threw
        THEN /\ unhandledRejection(code)
             /\ UNCHANGED meta
        ELSE /\ meta' = g.meta
             /\ out' = out \cup {"prompt"}
             /\ pc' = "prompt"
             /\ UNCHANGED <<exitCode, failClass>>
  /\ UNCHANGED <<options, downloadProgress, formats, videoMetadata, requestedItag,
                 data, outputBitrate, outputFormat, outputFileName, tagErr, answers, tags, lookupVars,
                 now, startTime, runtime, streamVars, utilVars>>

\* convertVideoToMp3 .on('error'): log.error exits before process.exit(53)
convertVideoToMp3Error ==
  /\ pc = "convert"
  /\ logError("transcode")
  /\ UNCHANGED <<options, downloadProgress, formats, videoMetadata, requestedItag, data, files,
                 outputBitrate, outputFormat, outputFileName, tagErr, started, completed, songVars, lookupVars,
                 clockVars, streamVars, utilVars>>

\* a prompt that keeps the typed line even when it is empty
promptValueTyped(typed, defaultVal) == typed

\* prompt.get for one property: an empty line stands for the default
promptValue(typed, defaultVal) == IF typed = << >> THEN defaultVal ELSE typed

\* the object prompt.get resolves with: one key per property
promptResults(ans) ==
  [k \in {PROMPT_FIELDS[i] : i \in DOMAIN ans} |->
     ans[CHOOSE i \in DOMAIN ans : PROMPT_FIELDS[i] = k].value]

\* gatherMetadata's prompt.get: one line typed for the property being asked.
\* An empty line takes the default; with no default the property, being
\* required, is asked again.  When the last property is answered prompt.get
\* resolves, gatherMetadata returns the results, and writeId3Tags filters
\* them and calls ffMetadata.write.
gatherMetadataPrompted(typed) ==
  /\ pc = "prompt"
  /\ LET field      == PROMPT_FIELDS[Len(answers) + 1]
         defaultVal == promptDefault(meta, field)
     IN  IF typed = << >> /\ ~hasDefault(defaultVal)
         THEN UNCHANGED <<pc, answers, tags>>
         ELSE LET value == promptValue(typed, defaultVal)
                  ans   == Append(answers, [typed |-> typed, value |-> value])
              IN  /\ answers' = ans
                  /\ IF Len(ans) = Len(PROMPT_FIELDS)
                     THEN /\ tags' = filterTags(promptResults(ans))
                          /\ pc' = "tagwrite"
                     ELSE UNCHANGED <<pc, tags>>
  /\ UNCHANGED <<exitCode, failClass, options, downloadProgress, formats, videoMetadata, requestedItag,
                 data, files, outputBitrate, outputFormat, outputFileName, tagErr, out, started, completed,
                 lookups, parserRuns, meta, lookupVars,
                 clockVars, streamVars, utilVars>>

\* the characters sanitize-filename removes, of the model's alphabet
UNSAFE_CHARS == {"/"}

\* sanitize(name)
sanitize(name) == SelectSeq(name, LAMBDA c : c \notin UNSAFE_CHARS)

MP3_SUFFIX == <<".", "m", "p", "3">>

\* str.endsWith(suffix)
endsWith(str, suffix) ==
  /\ Len(str) >= Len(suffix)
  /\ SubSeq(str, Len(str) - Len(suffix) + 1, Len(str)) = suffix

\* metadata.artist, metadata.title: undefined for a key the object lacks
fieldOf(obj, k) == IF k \in DOMAIN obj THEN obj[k] ELSE Undef

\* finalizeMp3: outputFileName
finalFileName(metadata, customOutputFile) ==
  IF StrFalsy(customOutputFile)
  THEN <<".", "/">> \o ToStr(fieldOf(metadata, "artist")) \o TITLE_JOINER
         \o ToStr(fieldOf(metadata, "title")) \o MP3_SUFFIX
  ELSE LET outputFileName0 == sanitize(customOutputFile) IN
       IF endsWith(outputFileName0, MP3_SUFFIX) THEN outputFileName0
       ELSE outputFileName0 \o MP3_SUFFIX

\* Log.warning: prints, and returns to the caller
logWarning(o) == o \cup {"warning"}

\* finalizeMp3 with the intermediate mp3 deleted before it is copied
finalizeMp3CopyUnlinkFirst(o, fsOutcome) ==
  /\ started' = Append(started, "finalize")
  /\ outputFileName' = finalFileName(tags, options.output)
  /\ IF fsOutcome = "ok"
     THEN /\ files' = (files \cup {"final"}) \ {"mp3_tmp"}
          /\ out' = o
          /\ pc' = "probe"
          /\ UNCHANGED <<exitCode, failClass>>
     ELSE /\ files' = IF fsOutcome = "copyFails" THEN files \ {"mp3_tmp"} ELSE files
          /\ out' = o \cup {"error"}
          /\ processExit(LOG_ERROR_EXIT, "copy")

\* finalizeMp3 up to its ffProbe call, with o what has been printed so far.
\* fsOutcome: fsExtra.copySync throws ("copyFails"), or it copies and
\* fs.unlinkSync throws ("unlinkFails"), or both go through ("ok"); an
\* exception is caught and handed to log.error.
finalizeMp3Copy(o, fsOutcome) ==
  /\ started' = Append(started, "finalize")
  /\ outputFileName' = finalFileName(tags, options.output)
  /\ IF fsOutcome = "ok"
     THEN /\ files' = (files \cup {"final"}) \ {"mp3_tmp"}
          /\ out' = o
          /\ pc' = "probe"
          /\ UNCHANGED <<exitCode, failClass>>
     ELSE /\ files' = IF fsOutcome = "unlinkFails" THEN files \cup {"final"} ELSE files
          /\ out' = o \cup {"error"}
          /\ processExit(LOG_ERROR_EXIT, "copy")

FsOutcomes == {"ok", "copyFails", "unlinkFails"}

\* a tag write whose error is handed to log.error instead of log.warning
writeId3TagsFatal(err, fsOutcome) ==
  /\ pc = "tagwrite"
  /\ tagErr' = err
  /\ IF err
     THEN /\ logError("tagwrite")
          /\ UNCHANGED <<files, started, completed, outputFileName>>
     ELSE /\ completed' = completed \cup {"tag"}
          /\ finalizeMp3Copy(out, fsOutcome)
  /\ UNCHANGED <<options, downloadProgress, formats, videoMetadata, requestedItag, data,
                 outputBitrate, outputFormat, songVars, lookupVars,
                 clockVars, streamVars, utilVars>>

\* the callback of ffMetadata.write: a warning on err, resolve(metadata) in
\* both cases; main then runs finalizeMp3.
writeId3Tags(err, fsOutcome) ==
  /\ pc = "tagwrite"
  /\ tagErr' = err
  /\ completed' = completed \cup {"tag"}
  /\ finalizeMp3Copy(IF err THEN logWarning(out) ELSE out, fsOutcome)
  /\ UNCHANGED <<options, downloadProgress, formats, videoMetadata, requestedItag, data,
                 outputBitrate, outputFormat, songVars, lookupVars,
                 clockVars, streamVars, utilVars>>

\* a runtime measured up to the moment the summary is printed
reportedRuntimeToNow(start, end) == now - start

\* main: the 'Runtime:' line prints endTime - startTime
reportedRuntime(start, end) == end - start

\* the callback of ffProbe in finalizeMp3; on success main prints the summary
finalizeMp3(err) ==
  /\ pc = "probe"
  /\ IF err
     THEN /\ logError("probe")
          /\ UNCHANGED <<completed, runtime>>
     ELSE /\ completed' = completed \cup {"finalize"}
          /\ out' = out \cup {"summary"}
          /\ runtime' = reportedRuntime(startTime, endTime)
          /\ pc' = "done"
          /\ exitCode' = 0
          /\ UNCHANGED failClass
  /\ UNCHANGED <<options, downloadProgress, formats, videoMetadata, requestedItag, data, files,
                 outputBitrate, outputFormat, outputFileName, tagErr, started, songVars, lookupVars,
                 now, startTime, endTime, streamVars, utilVars>>

\* a second goes by while the process is waiting
tick ==
  /\ pc \notin {"main", "done", "exited"}
  /\ now < MaxTime
  /\ now' = now + 1
  /\ UNCHANGED <<pc, exitCode, failClass, options, downloadProgress, formats, videoMetadata,
                 requestedItag, data, files, outputBitrate, outputFormat, outputFileName, tagErr,
                 out, started, completed, songVars, lookupVars, startTime, endTime, runtime,
                 streamVars, utilVars>>

\* the answers the service can give to a second request: there is one only
\* when gatherMetadata makes a second request
secondResponses(all, response1) ==
  IF Len(gatherMetadata(videoMetadata.title, options.separator, response1, response1).lookups) = 2
  THEN all ELSE {response1}

Next ==
  \/ main
  \/ \E fs \in FormatLists, d \in SpecDetails : downloadMetadata(fs, d)
  \/ downloadMetadataCatch
  \/ downloadVideoProgress
  \/ \E chunk \in SpecChunks : downloadVideoData(chunk)
  \/ downloadVideoEnd
  \/ downloadVideoError
  \/ /\ pc = "convert"
     /\ \E r1 \in SpecResponses, code \in UNHANDLED_REJECTION_EXITS :
          \E r2 \in secondResponses(SpecResponses, r1) : convertVideoToMp3End(r1, r2, code)
  \/ convertVideoToMp3Error
  \/ \E typed \in SpecTyped : gatherMetadataPrompted(typed)
  \/ \E err \in BOOLEAN, fsOutcome \in FsOutcomes : writeId3Tags(err, fsOutcome)
  \/ \E err \in BOOLEAN : finalizeMp3(err)

Spec == Init /\ [][Next]_vars

NextMeta ==
  \/ main
  \/ \E fs \in MetaFormatLists, d \in VideoDetails : downloadMetadata(fs, d)
  \/ downloadMetadataCatch
  \/ downloadVideoProgress
  \/ \E chunk \in SpecChunks : downloadVideoData(chunk)
  \/ downloadVideoEnd
  \/ downloadVideoError
  \/ /\ pc = "convert"
     /\ \E r1 \in MetaResponses, code \in UNHANDLED_REJECTION_EXITS :
          \E r2 \in secondResponses(MetaResponses, r1) : convertVideoToMp3End(r1, r2, code)
  \/ convertVideoToMp3Error
  \/ \E typed \in TypedLines : gatherMetadataPrompted(typed)
  \/ \E err \in BOOLEAN, fsOutcome \in FsOutcomes : writeId3Tags(err, fsOutcome)
  \/ \E err \in BOOLEAN : finalizeMp3(err)

SpecMeta == InitMeta /\ [][NextMeta]_vars

\* --------------------------------------------------- the run on a clock
\* one command line, with and without --video; the answers of Spec
TimeOptions ==
  {o \in MetaOptions : o.separator = DEFAULT_SEPARATORS /\ o.output = Undef}

InitTime ==
  /\ options \in TimeOptions
  /\ InitState
  /\ lkTerm = << >> /\ lkResponse = NoResponse /\ lkResult = NoMatch
  /\ utilCall = NoCall /\ utilResult = NoCall

NextTime ==
  \/ main
  \/ \E fs \in MetaFormatLists, d \in SpecDetails : downloadMetadata(fs, d)
  \/ downloadMetadataCatch
  \/ downloadVideoProgress
  \/ \E chunk \in SpecChunks : downloadVideoData(chunk)
  \/ downloadVideoEnd
  \/ downloadVideoError
  \/ /\ pc = "convert"
     /\ \E r1 \in SpecResponses, code \in UNHANDLED_REJECTION_EXITS :
          \E r2 \in secondResponses(SpecResponses, r1) : convertVideoToMp3End(r1, r2, code)
  \/ convertVideoToMp3Error
  \/ \E typed \in SpecTyped : gatherMetadataPrompted(typed)
  \/ \E err \in BOOLEAN, fsOutcome \in FsOutcomes : writeId3Tags(err, fsOutcome)
  \/ \E err \in BOOLEAN : finalizeMp3(err)
  \/ tick

SpecTime == InitTime /\ [][NextTime]_vars

\* ----------------------------------------------------- the download alone
NextDownload ==
  \/ main
  \/ \E fs \in MetaFormatLists, d \in SpecDetails : downloadMetadata(fs, d)
  \/ downloadMetadataCatch
  \/ downloadVideoProgress
  \/ \E chunk \in Chunks : downloadVideoData(chunk)
  \/ downloadVideoEnd
  \/ downloadVideoError

SpecDownload == InitTime /\ [][NextDownload]_vars

\* ------------------------------------------- the util.js functions alone
\* the titles of the README and of the parser's comments
TITLE_OFFICIAL_VIDEO ==
  << "A", "r", "t", "i", "s", "t", " ", "-", " ", "S", "o", "n", "g", " ",
     "(", "O", "f", "f", "i", "c", "i", "a", "l", " ", "V", "i", "d", "e",
     "o", ")" >>

TITLE_NO_SEPARATOR ==
  << "N", "o", "S", "e", "p", "a", "r", "a", "t", "o", "r", "H", "e", "r",
     "e" >>

TITLE_TWO_SEPARATORS ==
  << "B", "a", "n", "d", " ", "-", " ", "\"", "T", "r", "a", "c", "k", " ",
     "N", "a", "m", "e", "\"", " ", "-", " ", "L", "y", "r", "i", "c", "s" >>

\* the noise phrases parseVideoTitle hands to removeTrailing
NOISE_OFFICIAL_VIDEO_PAREN ==
  << "(", "o", "f", "f", "i", "c", "i", "a", "l", " ", "v", "i", "d", "e",
     "o", ")" >>

NOISE_OFFICIAL_VIDEO ==
  << "o", "f", "f", "i", "c", "i", "a", "l", " ", "v", "i", "d", "e", "o" >>

NOISE_LYRICS ==
  << "l", "y", "r", "i", "c", "s" >>

\* strings to remove a noise phrase from
SONG_OFFICIAL_VIDEO_PAREN ==
  << "S", "o", "n", "g", " ", "(", "O", "f", "f", "i", "c", "i", "a", "l",
     " ", "V", "i", "d", "e", "o", ")" >>

SONG_OFFICIAL_VIDEO ==
  << "S", "o", "n", "g", " ", "o", "f", "f", "i", "c", "i", "a", "l", " ",
     "v", "i", "d", "e", "o" >>

SONG_LYRICS ==
  << "S", "o", "n", "g", " ", "L", "y", "r", "i", "c", "s" >>

\* every string of up to MaxTitleLen characters of chars
StringsOver(chars) == UNION { [1 .. n -> chars] : n \in 1 .. MaxTitleLen }

ParseCalls ==
  [fn : {"parseVideoTitle"},
   videoTitle : StringsOver({"a", " ", "-", "em-dash"}) \cup
                {TITLE_OFFICIAL_VIDEO, TITLE_NO_SEPARATOR, TITLE_TWO_SEPARATORS},
   separators : {<< <<"-">> >>, DEFAULT_SEPARATORS}]

RemoveCalls ==
  [fn : {"removeTrailing"},
   string : StringsOver({"a", " ", "y", "Y", "(", ")"}),
   substring : {<<"y">>, <<"a", "y">>, <<"(", "y", ")">>}]
  \cup
  [fn : {"removeTrailing"},
   string : {SONG_OFFICIAL_VIDEO_PAREN, SONG_OFFICIAL_VIDEO, SONG_LYRICS},
   substring : {NOISE_OFFICIAL_VIDEO_PAREN, NOISE_OFFICIAL_VIDEO, NOISE_LYRICS}]

SongCalls ==
  [fn : {"parseSongName"},
   videoDetails : [present : {TRUE}, title : {<<"t">>},
                   artist : {Undef, <<"A">>}, song : {Undef, <<"b">>}]]

InitUtil ==
  /\ options \in {o \in TimeOptions : ~o.video}
  /\ InitState
  /\ lkTerm = << >> /\ lkResponse = NoResponse /\ lkResult = NoMatch
  /\ \/ utilCall \in ParseCalls
     \/ utilCall \in RemoveCalls
     \/ utilCall \in SongCalls
  /\ utilResult = NoCall

\* the called function returns (or throws): everything else stays
utilReturns(result) ==
  /\ pc = "main"
  /\ pc' = "returned"
  /\ utilResult' = result
  /\ UNCHANGED <<exitCode, failClass, options, downloadProgress, formats, videoMetadata,
                 requestedItag, data, files, outputBitrate, outputFormat, outputFileName, tagErr,
                 out, started, completed, songVars, lookupVars, clockVars, streamVars, utilCall>>

parseVideoTitleCall ==
  /\ utilCall.fn = "parseVideoTitle"
  /\ utilReturns(parseVideoTitle(utilCall.videoTitle, utilCall.separators))

removeTrailingCall ==
  /\ utilCall.fn = "removeTrailing"
  /\ utilReturns(removeTrailing(utilCall.string, utilCall.substring))

parseSongNameCall ==
  /\ utilCall.fn = "parseSongName"
  /\ utilReturns(parseSongName(utilCall.videoDetails))

NextUtil ==
  \/ parseVideoTitleCall
  \/ removeTrailingCall
  \/ parseSongNameCall

SpecUtil == InitUtil /\ [][NextUtil]_vars

\* ------------------------------------------------- loadItunesMeta alone
\* the search terms handed to loadItunesMeta
SearchTerms == { <<"A", " ", "-", " ", "b">>, <<"a", "x">>, UNKNOWN_TITLE }

InitLookup ==
  /\ options \in {o \in MetaOptions :
                  ~o.video /\ o.separator = DEFAULT_SEPARATORS /\ o.output = Undef}
  /\ InitState
  /\ lkTerm \in SearchTerms
  /\ lkResponse \in Responses
  /\ lkResult = NoMatch
  /\ utilCall = NoCall /\ utilResult = NoCall

\* one call of loadItunesMeta(searchTerm), the service answering lkResponse
loadItunesMetaCall ==
  /\ pc = "main"
  /\ pc' = "looked"
  /\ lkResult' = loadItunesMeta(lkTerm, lkResponse)
  /\ UNCHANGED <<exitCode, failClass, options, downloadProgress, formats, videoMetadata,
                 requestedItag, data, files, outputBitrate, outputFormat, outputFileName, tagErr, out, started,
                 completed, songVars, lkTerm, lkResponse,
                 clockVars, streamVars, utilVars>>

NextLookup == loadItunesMetaCall

SpecLookup == InitLookup /\ [][NextLookup]_vars

\* ================================================================ claims
Range(q) == {q[i] : i \in DOMAIN q}

IsPrefix(p, q) == Len(p) <= Len(q) /\ \A i \in 1 .. Len(p) : p[i] = q[i]

\* the stages in progress
active == Range(started) \ completed

\* C1: the stages run in the order fetch, download, transcode, tag, finalize,
\* each started at most once; a stage starts only when every stage before it
\* has completed, and at most one stage is in progress.
C1_StagesInOrder ==
  /\ IsPrefix(started, Stages)
  /\ \A i \in 1 .. Len(started) - 1 : started[i] \in completed
  /\ completed \subseteq Range(started)
  /\ Cardinality(active) <= 1

C1_Witness ==
  /\ started = Stages
  /\ completed = Range(Stages)
  /\ pc = "done"

\* the stage in which a fatal condition arises
FatalStage(class) ==
  CASE class \in {"fetch", "noaudio"} -> "fetch"
    [] class = "download"  -> "download"
    [] class = "transcode" -> "transcode"
    [] class \in {"copy", "probe"} -> "finalize"

FatalClasses == {"fetch", "noaudio", "download", "transcode", "copy", "probe"}

\* C2: once a fatal condition has occurred the process has exited with a
\* non-zero code, the last stage started is the one that failed, and the
\* summary is not printed; the summary is printed only when no fatal
\* condition occurred and all five stages completed.
C2_FatalStops ==
  /\ failClass \in FatalClasses =>
       /\ pc = "exited"
       /\ exitCode # Absent /\ exitCode # 0
       /\ "error" \in out
       /\ "summary" \notin out
       /\ started # << >> /\ started[Len(started)] = FatalStage(failClass)
       /\ FatalStage(failClass) \notin completed
  /\ "summary" \in out =>
       /\ failClass = "none"
       /\ completed = Range(Stages)

C2_Witness ==
  /\ failClass = "probe"
  /\ pc = "exited"
  /\ "final" \in files

\* C3: an error of the tag write is printed as a warning and is not fatal:
\* the run goes on to finalizeMp3, where (unless the copy itself fails) the
\* intermediate mp3 is copied to the final name and deleted, the final file
\* is probed, and on a good probe the summary is printed.
C3_TagFailureIsWarning ==
  tagErr =>
    /\ "warning" \in out
    /\ "tag" \in completed
    /\ Len(started) = 5
    /\ failClass \in {"none", "copy", "probe"}
    /\ failClass # "copy" => ("final" \in files /\ "mp3_tmp" \notin files)
    /\ failClass = "none" => pc \in {"probe", "done"}
    /\ pc = "done" => "summary" \in out

C3_Witness ==
  /\ tagErr
  /\ pc = "done"
  /\ "summary" \in out
  /\ "final" \in files
  /\ "mp3_tmp" \notin files

\* the exit code each class of fatal condition is written to end with:
\* process.exit(55) in main, process.exit(54) and process.exit(53) after the
\* log.error calls of downloadVideo and convertVideoToMp3, 25 in Log.error
ClassExitCode(class) ==
  CASE class = "usage"     -> USAGE_EXIT
    [] class = "download"  -> DOWNLOAD_EXIT
    [] class = "transcode" -> CONVERT_EXIT
    [] OTHER               -> LOG_ERROR_EXIT

\* C4: a usage error, a download failure, a transcode failure and a generic
\* runtime error end the process with four different exit codes: a run that
\* failed in one of these classes exits with the code written for that class
\* (55, 54, 53 and 25 are pairwise different), so no two classes share a code.
C4_DistinctExitCodes ==
  pc = "exited" => exitCode = ClassExitCode(failClass)

\* the fetch has answered and a selector has run on formats
Selected == pc \notin {"main", "getInfo"} /\ failClass \notin {"usage", "validation", "fetch"}

\* r is the first entry of fs with the greatest audio bitrate, which is > 0
IsHighestBitrate(r, fs) ==
  /\ r.itag \in DOMAIN fs
  /\ r = fs[r.itag]
  /\ r.audioBitrate > 0
  /\ \A j \in DOMAIN fs : fs[j].audioBitrate <= r.audioBitrate
  /\ \A j \in 1 .. r.itag - 1 : fs[j].audioBitrate < r.audioBitrate

\* C5: without --low-quality the selected format is the entry of greatest
\* audio bitrate, the first such in list order, when some entry has a
\* positive bitrate; when none has (every bitrate zero or absent, or the list
\* empty) the selector returned null.
C5_HighestBitrate ==
  (Selected /\ ~options.lowQuality) =>
    IF \E i \in DOMAIN formats : formats[i].audioBitrate > 0
    THEN IsHighestBitrate(videoMetadata.format, formats)
    ELSE videoMetadata.format = NullFormat /\ failClass = "noaudio"

C5_Witness ==
  /\ Selected /\ ~options.lowQuality
  /\ Len(formats) = 2
  /\ formats[1].audioBitrate = formats[2].audioBitrate
  /\ formats[1].audioBitrate > 0
  /\ videoMetadata.format = formats[1]

\* r is an entry of fs among those with indices in Q, of least content
\* length among them
IsSmallestAmong(r, fs, Q) ==
  /\ r.itag \in Q
  /\ r = fs[r.itag]
  /\ \A j \in Q : r.clen <= fs[j].clen

\* the entries that have both an audio bitrate and a content length
Defined(fs) == {i \in DOMAIN fs : fs[i].audioBitrate # Absent /\ fs[i].clen # Absent}

\* the entries that have a non-zero audio bitrate and a content length
Qualifying(fs) == {i \in DOMAIN fs : fs[i].audioBitrate # Absent /\ fs[i].audioBitrate # 0
                                     /\ fs[i].clen # Absent}

\* C6 as stated: with --low-quality, an entry qualifies when it has a defined
\* audio bitrate and a defined content length; with no qualifying entry the
\* selector returned null, otherwise a qualifying entry of least content
\* length.
C6_SmallestOfDefined ==
  (Selected /\ options.lowQuality) =>
    IF Defined(formats) = {}
    THEN videoMetadata.format = NullFormat
    ELSE IsSmallestAmong(videoMetadata.format, formats, Defined(formats))

\* C6 amended: with --low-quality, an entry qualifies when it has a non-zero
\* audio bitrate and a defined content length; with no qualifying entry the
\* selector returned null, otherwise a qualifying entry of least content
\* length among the qualifying entries; an entry that does not qualify is
\* never returned.
C6_SmallestOfQualifying ==
  (Selected /\ options.lowQuality) =>
    IF Qualifying(formats) = {}
    THEN videoMetadata.format = NullFormat /\ failClass = "noaudio"
    ELSE IsSmallestAmong(videoMetadata.format, formats, Qualifying(formats))

\* a list where an entry that does not qualify is listed first: the
\* qualifying entry is returned
C6_Witness ==
  /\ Selected /\ options.lowQuality
  /\ Len(formats) = 2
  /\ formats[1].clen = Absent /\ formats[1].audioBitrate > 0
  /\ 2 \in Qualifying(formats)
  /\ videoMetadata.format = formats[2]

\* a format has been stored in VideoMetadata
Stored == videoMetadata.format # NullFormat

\* no entry of fs carries audio
NoAudio(fs) == \A i \in DOMAIN fs : fs[i].audioBitrate = Absent \/ fs[i].audioBitrate = 0

\* the run has ended because no format carries audio, before any download
NoAudioEnd(code) ==
  /\ pc = "exited"
  /\ exitCode = code
  /\ ~Stored
  /\ requestedItag = 0
  /\ started = <<"fetch">>
  /\ outputBitrate = Absent
  /\ data = << >> /\ files = {}

\* C7 as stated: the stored format has a defined audio bitrate > 0 and is the
\* one requested for download; when the selector returned null the run ends
\* with the usage error exit and neither download nor transcode is started.
C7_SelectedHasAudioUsage ==
  /\ (Stored \/ requestedItag # 0) =>
       /\ videoMetadata.format.audioBitrate # Absent
       /\ videoMetadata.format.audioBitrate > 0
       /\ requestedItag = videoMetadata.format.itag
  /\ (Selected /\ NoAudio(formats)) => NoAudioEnd(USAGE_EXIT)
  /\ failClass = "noaudio" => NoAudioEnd(USAGE_EXIT)

\* C7 amended: the stored format has a defined audio bitrate > 0 and is the
\* one requested for download; when the selector returned null the run ends
\* with the exit code of Log.error (25, the generic error exit, not the usage
\* exit 55) and neither download nor transcode is started.
C7_SelectedHasAudio ==
  /\ (Stored \/ requestedItag # 0) =>
       /\ videoMetadata.format.audioBitrate # Absent
       /\ videoMetadata.format.audioBitrate > 0
       /\ requestedItag = videoMetadata.format.itag
  /\ (Selected /\ NoAudio(formats)) => NoAudioEnd(LOG_ERROR_EXIT)
  /\ failClass = "noaudio" => (NoAudioEnd(LOG_ERROR_EXIT) /\ "error" \in out)

C7_Witness ==
  /\ failClass = "noaudio"
  /\ pc = "exited"
  /\ Len(formats) = 2
  /\ \A i \in DOMAIN formats : ~Truthy(formats[i].audioBitrate)

\* r is the first entry of fs of least content length among the qualifying
IsSmallestSize(r, fs) ==
  /\ IsSmallestAmong(r, fs, Qualifying(fs))
  /\ \A j \in Qualifying(fs) : j < r.itag => fs[j].clen > r.clen

\* C8: the stream requested from ytdl for the download is the one the flag's
\* selector chooses from the fetched list: with --low-quality the smallest
\* qualifying stream, also when the list has a larger stream of higher
\* bitrate; without it the stream of highest bitrate.
C8_DownloadsSelected ==
  requestedItag # 0 =>
    /\ requestedItag \in DOMAIN formats
    /\ IF options.lowQuality
       THEN IsSmallestSize(formats[requestedItag], formats)
       ELSE IsHighestBitrate(formats[requestedItag], formats)

C8_Witness ==
  /\ options.lowQuality
  /\ requestedItag = 2
  /\ pc = "download"
  /\ formats[1].audioBitrate > formats[2].audioBitrate
  /\ formats[1].clen # Absent /\ formats[1].clen > formats[2].clen

\* nothing of the pipeline has happened: no fetch, download, file, ffmpeg
\* call, or stage (lookups, prompt and tagging belong to stage "tag")
NothingStarted ==
  /\ started = << >> /\ completed = {}
  /\ formats = << >> /\ ~Stored
  /\ requestedItag = 0 /\ data = << >>
  /\ files = {}
  /\ outputBitrate = Absent
  /\ "header" \notin out /\ "summary" \notin out

\* C9: with no URL argument the program prints the usage and exits with the
\* usage code 55 (non-zero) before anything of the pipeline starts.
C9_MissingUrl ==
  (~options.url /\ pc # "main") =>
    /\ pc = "exited"
    /\ exitCode = USAGE_EXIT /\ exitCode # 0
    /\ failClass = "usage"
    /\ "usage" \in out
    /\ NothingStarted

C9_Witness ==
  /\ ~options.url
  /\ pc = "exited"
  /\ "usage" \in out

\* a bitrate value that lies within [32, 320]
InRange(b) == b # NaN /\ MIN_BITRATE <= b /\ b <= MAX_BITRATE

\* a number that lies outside [32, 320]
Outside(b) == b # NaN /\ (b < MIN_BITRATE \/ b > MAX_BITRATE)

\* C10: a supplied bitrate that is not within [32, 320] ends the run with a
\* validation error before any stage starts, so that whenever ffmpeg is
\* invoked with an explicit override, the override lies within [32, 320].
C10_BitrateValidated ==
  /\ (options.url /\ options.bitrate # Absent /\ Outside(options.bitrate) /\ pc # "main") =>
       /\ pc = "exited"
       /\ failClass = "validation"
       /\ exitCode # 0
       /\ "error" \in out
       /\ NothingStarted
  /\ (outputBitrate # Absent /\ options.bitrate # Absent) =>
       /\ outputBitrate = options.bitrate
       /\ InRange(outputBitrate)

\* C11: the bitrate handed to the transcoder is the override when one was
\* given and the selected source format's audio bitrate otherwise, and the
\* target format is mp3.
TranscoderInvoked == "transcode" \in Range(started)

C11_TranscoderBitrate ==
  TranscoderInvoked =>
    /\ outputFormat = "mp3"
    /\ outputBitrate = IF options.bitrate # Absent THEN options.bitrate
                       ELSE videoMetadata.format.audioBitrate

C11_Witness ==
  /\ TranscoderInvoked
  /\ options.bitrate = MIN_BITRATE
  /\ videoMetadata.format.audioBitrate # MIN_BITRATE
  /\ outputBitrate = MIN_BITRATE

\* C12: with --video the run only downloads the video and writes it to the
\* current directory: no transcoding, lookup, prompt, tag writing or final
\* mp3 ever happens, and the written video stays.
C12_VideoOnly ==
  options.video =>
    /\ Range(started) \subseteq {"fetch", "download"}
    /\ outputFormat = "none" /\ outputBitrate = Absent
    /\ lookups = << >> /\ parserRuns = 0
    /\ "prompt" \notin out /\ answers = << >>
    /\ tags = NoTags
    /\ files \subseteq {"video_cwd"}
    /\ ("download" \in completed) => (pc = "done" /\ "video_cwd" \in files)

C12_Witness == options.video /\ pc = "done" /\ files = {"video_cwd"}

\* C13: once the transcode has ended successfully the intermediate video in
\* the temporary directory is gone.
C13_IntermediateVideoRemoved ==
  ("transcode" \in completed) => ("video_tmp" \notin files)

\* C14: the final file exists only once the tag write's callback has run;
\* the intermediate mp3 is gone only once the final file has been copied;
\* the final file is probed only once the intermediate mp3 is gone.
Probing == pc = "probe" \/ failClass = "probe" \/ "finalize" \in completed

C14_FinalizeOrder ==
  /\ ("final" \in files) => ("tag" \in completed)
  /\ ("transcode" \in completed /\ "mp3_tmp" \notin files) => ("final" \in files)
  /\ Probing => ("final" \in files /\ "mp3_tmp" \notin files)

C14_Witness == pc = "done" /\ tagErr /\ "final" \in files /\ "mp3_tmp" \notin files

\* C15: the first lookup uses the video title; there is a second lookup
\* exactly when the first found nothing and the title splits on one of the
\* separators, its term being "<artist> <title>" of the split; the parser
\* runs only after a failed first lookup; at most two lookups, none with
\* --video.
SplitPoints(title, separators) ==
  {<<i, k>> \in (1 .. Len(title)) \X DOMAIN separators :
     LET tok == <<" ">> \o separators[k] \o <<" ">> IN
     /\ i > 1
     /\ i + Len(tok) <= Len(title)
     /\ SubSeq(title, i, i + Len(tok) - 1) = tok}

Parseable(title, separators) == SplitPoints(title, separators) # {}

SplitArtist(title, separators) ==
  LET p == CHOOSE q \in SplitPoints(title, separators) :
             \A r \in SplitPoints(title, separators) : r[1] <= q[1]
  IN  SubSeq(title, 1, p[1] - 1)

SplitTitle(title, separators) ==
  LET p == CHOOSE q \in SplitPoints(title, separators) :
             \A r \in SplitPoints(title, separators) : r[1] <= q[1]
  IN  SubSeq(title, p[1] + Len(separators[p[2]]) + 2, Len(title))

C15_Lookups ==
  /\ options.video => lookups = << >>
  /\ Len(lookups) <= 2
  /\ parserRuns > 0 => (Len(lookups) >= 1 /\ ~lookups[1].success)
  /\ ("transcode" \in completed) =>
       /\ Len(lookups) >= 1
       /\ lookups[1].term = videoMetadata.title
       /\ (Len(lookups) = 2) <=>
            (~lookups[1].success /\ Parseable(videoMetadata.title, options.separator))
       /\ (Len(lookups) = 2) =>
            lookups[2].term = SplitArtist(videoMetadata.title, options.separator) \o <<" ">>
                              \o SplitTitle(videoMetadata.title, options.separator)

\* C16: the defaults shown are the fields of the last successful lookup; with
\* no successful lookup and a title that splits, the split artist and title
\* and nothing else; with no successful lookup and no split, the video title
\* and nothing else.
SomeLookupSucceeded == \E i \in DOMAIN lookups : lookups[i].success

C16_Defaults ==
  ("transcode" \in completed) =>
    IF SomeLookupSucceeded
    THEN \E e \in ItunesEntries :
           meta = [title |-> e.trackName, artist |-> e.artistName, album |-> e.collectionName,
                   genre |-> e.primaryGenreName, date |-> SubSeq(e.releaseDate, 1, 4)]
    ELSE IF Parseable(videoMetadata.title, options.separator)
    THEN /\ "prompt" \in out
         /\ meta = [title  |-> SplitTitle(videoMetadata.title, options.separator),
                    artist |-> SplitArtist(videoMetadata.title, options.separator),
                    album |-> Undef, genre |-> Undef, date |-> Undef]
    ELSE meta = [title |-> videoMetadata.title, artist |-> Undef, album |-> Undef,
                 genre |-> Undef, date |-> Undef]

\* C17: whatever the lookups and the title parser find, a run whose transcode
\* completed reaches the prompt; it does not end in between.
C17_ReachesPrompt ==
  ("transcode" \in completed) => ("prompt" \in out /\ failClass # "uncaught")

\* C18: loadItunesMeta succeeds only with the first entry of kind "song"
\* whose track name and artist name both occur in the search term, letter
\* case apart; with a non-200 answer or no such entry it reports no success.
IsSubstringCI(part, text) ==
  \E start \in 1 .. Len(text) - Len(part) + 1 :
     \A k \in 1 .. Len(part) : Lower(part[k]) = Lower(text[start + k - 1])

Acceptable(e, term) ==
  /\ e.kind = "song"
  /\ IsSubstringCI(e.trackName, term)
  /\ IsSubstringCI(e.artistName, term)

C18_ResolverContainment ==
  pc = "looked" =>
    LET good == IF lkResponse.statusCode = HTTP_OK
                THEN {i \in DOMAIN lkResponse.results : Acceptable(lkResponse.results[i], lkTerm)}
                ELSE {}
    IN  IF good = {} THEN ~lkResult.success
        ELSE LET e == lkResponse.results[CHOOSE i \in good : \A j \in good : i <= j] IN
             /\ lkResult.success
             /\ lkResult.title = e.trackName
             /\ lkResult.artist = e.artistName

\* C19: each answered property holds the typed line when one was typed and
\* the default otherwise, the album's default being "Single" when no album
\* was found; tags are written only after all five are answered.
ShownDefault(field) ==
  CASE field = "title"  -> meta.title
    [] field = "artist" -> meta.artist
    [] field = "album"  -> IF meta.album \in {Undef, << >>} THEN SINGLE ELSE meta.album
    [] field = "genre"  -> meta.genre
    [] field = "year"   -> meta.date

TagsHanded == pc = "tagwrite" \/ "tag" \in completed

C19_Confirmation ==
  /\ \A i \in DOMAIN answers :
       answers[i].value = IF answers[i].typed # << >> THEN answers[i].typed
                          ELSE ShownDefault(PROMPT_FIELDS[i])
  /\ (TagsHanded \/ tags # NoTags) => Len(answers) = Len(PROMPT_FIELDS)

C19_Witness ==
  /\ TagsHanded
  /\ meta.album = Undef
  /\ answers[1].typed = << >> /\ answers[1].value = videoMetadata.title
  /\ answers[2].typed # << >>
  /\ answers[3].typed = << >> /\ answers[3].value = SINGLE

\* C20: every confirmed property with a non-empty value is in the field set
\* handed to the tag writer, with that value (the year as the date).
TagKey(field) == IF field = "year" THEN "date" ELSE field

C20_ConfirmedFieldsTagged ==
  TagsHanded =>
    \A i \in DOMAIN answers :
       (answers[i].value \notin {Undef, << >>}) =>
          /\ TagKey(PROMPT_FIELDS[i]) \in DOMAIN tags
          /\ tags[TagKey(PROMPT_FIELDS[i])] = answers[i].value

\* C21: the field set handed to the tag writer has only the keys title,
\* artist, album, genre and date, and no empty or missing value.
RecognizedTagKeys == {"title", "artist", "album", "genre", "date"}

C21_OnlyRecognizedNonEmpty ==
  /\ DOMAIN tags \subseteq RecognizedTagKeys
  /\ \A k \in DOMAIN tags : tags[k] # Undef /\ tags[k] # << >>

C21_Witness ==
  /\ TagsHanded
  /\ Len(answers) = Len(PROMPT_FIELDS)
  /\ answers[Len(PROMPT_FIELDS)].value # << >>
  /\ DOMAIN tags = {"title", "artist", "album", "genre"}

\* C22: the final name is the given output name, or else
\* "<artist> - <title>.mp3" of the confirmed artist and title; either way
\* it ends in ".mp3" and has no unsafe character.
Stripped(name) == SelectSeq(name, LAMBDA c : c # "/")

DotMp3 == <<".", "m", "p", "3">>

EndsInMp3(name) ==
  Len(name) >= Len(DotMp3) /\ SubSeq(name, Len(name) - Len(DotMp3) + 1, Len(name)) = DotMp3

OutputGiven == options.output # Undef /\ options.output # << >>

C22_FinalName ==
  ("finalize" \in Range(started)) =>
    /\ EndsInMp3(outputFileName)
    /\ OutputGiven =>
         outputFileName = IF EndsInMp3(Stripped(options.output)) THEN Stripped(options.output)
                          ELSE Stripped(options.output) \o DotMp3
    /\ ~OutputGiven =>
         outputFileName = <<".", "/">> \o
            Stripped(answers[2].value \o <<" ", "-", " ">> \o answers[1].value \o DotMp3)

\* C23: the runtime in the summary runs from the start of the fetch to the
\* end of the transcode: the end time is taken when the transcode completes
\* and is not touched by the lookup, prompt, tagging and finalizing that
\* follow, and the runtime is not negative.
FetchStarts == started = << >> /\ started' # << >>

TranscodeCompletes == "transcode" \notin completed /\ "transcode" \in completed'

RECURSIVE Joined(_)
Joined(chunks) ==
  IF chunks = << >> THEN << >>
  ELSE Joined(SubSeq(chunks, 1, Len(chunks) - 1)) \o chunks[Len(chunks)]

C29_DownloadAccumulates ==
  /\ data = Joined(streamed)
  /\ ("download" \notin completed) => (files = {} /\ videoFileData = Absent)
  /\ ("download" \in completed) => videoFileData = Joined(streamed)

C29_Witness ==
  /\ "download" \in completed
  /\ downloadProgress
  /\ Len(streamed) = 2
  /\ streamed[1] # streamed[2]
  /\ videoFileData = streamed[1] \o streamed[2]

\* C24: a title "<artist> <separator> <title>" parses with success, the
\* artist being the trimmed left part; "Artist - Song (Official Video)" with
\* ["-"] gives artist "Artist" and title "Song".
Returned(fn) == pc = "returned" /\ utilCall.fn = fn

RECURSIVE Trimmed(_)
Trimmed(str) ==
  IF str = << >> THEN str
  ELSE IF str[1] = " " THEN Trimmed(SubSeq(str, 2, Len(str)))
  ELSE IF str[Len(str)] = " " THEN Trimmed(SubSeq(str, 1, Len(str) - 1))
  ELSE str

\* the title has an artist part and a title part around one of the tokens
ArtistSeparatorTitle(title, separators) ==
  /\ Parseable(title, separators)
  /\ Trimmed(SplitArtist(title, separators)) # << >>
  /\ Trimmed(SplitTitle(title, separators)) # << >>

C24_ParsesArtistTitle ==
  (Returned("parseVideoTitle")
     /\ ArtistSeparatorTitle(utilCall.videoTitle, utilCall.separators)) =>
    /\ utilResult.success
    /\ utilResult.artist = Trimmed(SplitArtist(utilCall.videoTitle, utilCall.separators))
    /\ (utilCall.videoTitle = TITLE_OFFICIAL_VIDEO /\ utilCall.separators = << <<"-">> >>) =>
         /\ utilResult.artist = <<"A", "r", "t", "i", "s", "t">>
         /\ utilResult.title = <<"S", "o", "n", "g">>

\* C25: a title in which none of the separator tokens occurs gives
\* {success: false} with no artist and no title, and nothing is thrown.
Occurs(tok, title) ==
  \E i \in 1 .. Len(title) - Len(tok) + 1 : SubSeq(title, i, i + Len(tok) - 1) = tok

NoTokenIn(title, separators) == \A k \in DOMAIN separators : ~Occurs(separators[k], title)

C25_NoSeparatorNoSuccess ==
  (Returned("parseVideoTitle") /\ NoTokenIn(utilCall.videoTitle, utilCall.separators)) =>
    /\ ~utilResult.success
    /\ ~utilResult.threw
    /\ utilResult.artist = Undef
    /\ utilResult.title = Undef

C25_Witness ==
  /\ Returned("parseVideoTitle")
  /\ utilCall.videoTitle = TITLE_NO_SEPARATOR
  /\ utilCall.separators = << <<"-">> >>
  /\ ~utilResult.success

\* C26: 'Band - "Track Name" - Lyrics' with ["-"] parses to the title
\* Track Name.
C26_TrackNameBetweenSeparators ==
  (Returned("parseVideoTitle")
     /\ utilCall.videoTitle = TITLE_TWO_SEPARATORS
     /\ utilCall.separators = << <<"-">> >>) =>
    /\ utilResult.success
    /\ utilResult.title = <<"T", "r", "a", "c", "k", " ", "N", "a", "m", "e">>

\* C27: removeTrailing cuts the whole phrase when the string ends with it,
\* letter case apart, after a blank, and cuts nothing otherwise; the result
\* is trimmed.
EndsWithPhrase(string, phrase) ==
  /\ Len(string) > Len(phrase)
  /\ string[Len(string) - Len(phrase)] = " "
  /\ \A k \in 1 .. Len(phrase) :
       Lower(string[Len(string) - Len(phrase) + k]) = Lower(phrase[k])

C27_RemoveTrailing ==
  Returned("removeTrailing") =>
    utilResult = IF EndsWithPhrase(utilCall.string, utilCall.substring)
                 THEN Trimmed(SubSeq(utilCall.string, 1,
                                     Len(utilCall.string) - Len(utilCall.substring)))
                 ELSE Trimmed(utilCall.string)

\* C28: with several separator tokens a title with any one of them between
\* an artist part and a title part parses with success.
C28_AnyOfSeveralSeparators ==
  (Returned("parseVideoTitle")
     /\ Len(utilCall.separators) > 1
     /\ ArtistSeparatorTitle(utilCall.videoTitle, utilCall.separators)) =>
    utilResult.success

\* C30: parseSongName gives the video's own title unless the media artist
\* and the media song are both there, and "<artist> - <song>" when they are.
C30_SongNameFallback ==
  Returned("parseSongName") =>
    utilResult = IF utilCall.videoDetails.artist = Undef \/ utilCall.videoDetails.song = Undef
                 THEN utilCall.videoDetails.title
                 ELSE utilCall.videoDetails.artist \o <<" ", "-", " ">>
                        \o utilCall.videoDetails.song

====
